---- MODULE Spec2Model ----
(***************************************************************************)
(* A model of the ban ledger in bans/__init__.py: the Ban entity, the      *)
(* bans table and the operations of class Bans (create_ban, remove_ban,    *)
(* update_ban, get_ban, prune_bans, check_ban).                            *)
(*                                                                         *)
(* The table is a bag of rows, the clock is time.time() in whole seconds,  *)
(* and every call of the API is one action that records what it was given  *)
(* and what it returned (or raised) in ret.  create_ban is also modelled   *)
(* at statement granularity (CreateBegin, CreateInsert, CreateReturn) for  *)
(* callers that run concurrently against the same table.                   *)
(***************************************************************************)
EXTENDS Integers, Sequences, FiniteSets, Bags, TLC

VARIABLES
    bans,   \* the rows of table 'bans': a bag of records, one per row
    now,    \* time.time()
    ret,    \* the last completed call: its name and outcome, and for
            \* create_ban and check_ban its arguments
    pc,     \* concurrent callers of create_ban: idle, insert or done
    local,  \* concurrent callers: the Ban built by the call in progress
    out     \* concurrent callers: the outcome of the last completed create

vars == <<bans, now, ret, pc, local, out>>

---------------------------------------------------------------------------
\* Bounds of the model.

\* the clock runs from 0 to MaxTime
MaxTime == 1
\* the table holds at most MaxBans rows
MaxBans == 2
\* pages 0 to MaxPage - 1 are read, of 1 to MaxPerPage bans
MaxPage == 2
MaxPerPage == 2

---------------------------------------------------------------------------
\* Values.

None == "None"
DefaultUuid == "00000000-0000-0000-0000-000000000000"
\* ban identifiers (explicit, or drawn by uuid.uuid4())
Uuids == {"u1", "u2"}
Callers == {"c1", "c2"}
\* timestamps callers pass: before the epoch, 0 (never), and later ones
Timestamps == {-1, 0, 1, 2}

\* Python truthiness of an argument that is a string or None
Truthy(x) == x \notin {"", None}

\* kwargs.get(name, default)
Kw(kwargs, name, default) == IF name \in DOMAIN kwargs THEN kwargs[name] ELSE default

Raise(exc, msg) == [kind |-> "raise", exc |-> exc, msg |-> msg]
ReturnBan(ban) == [kind |-> "ban", ban |-> ban]
ReturnNone == [kind |-> "none"]

---------------------------------------------------------------------------
\* ipaddress.ip_address: text or packed bytes to an address, and .packed.

Invalid == "invalid"
\* the addresses of the model, each named by its canonical text
Addresses == {"1.2.3.4", "::1"}

\* ip_address(str): several texts denote one address, other text is no address
ip_address(text) ==
    CASE text = "1.2.3.4" -> "1.2.3.4"
      [] text = "::1" -> "::1"
      [] text = "0:0:0:0:0:0:0:1" -> "::1"
      [] OTHER -> Invalid

\* address.packed: 4 bytes for IPv4, 16 bytes for IPv6
packed(address) ==
    CASE address = "1.2.3.4" -> <<1, 2, 3, 4>>
      [] address = "::1" -> <<0, 0, 0, 0, 0, 0, 0, 0, 0, 0, 0, 0, 0, 0, 0, 1>>

\* ip_address(bytes): the address with that packed form
ip_address_bytes(b) == CHOOSE a \in Addresses : packed(a) = b

\* datetime.fromtimestamp(t, timezone.utc) and datetime.timestamp()
fromtimestamp(t) == [utc |-> t]
timestamp(d) == d.utc

---------------------------------------------------------------------------
\* class Ban

\* Ban.__init__(ban_uuid, remote_origin, **kwargs), remote_origin parsed;
\* user_uuid and created_by_uuid are given as UUID objects
Ban(ban_uuid, address, kwargs) ==
    [uuid |-> ban_uuid,
     remote_origin |-> address,
     scope |-> LET scope == Kw(kwargs, "scope", "global")
               IN  IF Truthy(scope) THEN scope ELSE "global",
     user_uuid |-> Kw(kwargs, "user_uuid", DefaultUuid),
     creation_time |-> fromtimestamp(Kw(kwargs, "creation_time", 0)),
     expiration_time |-> fromtimestamp(Kw(kwargs, "expiration_time", 0)),
     view_time |-> fromtimestamp(Kw(kwargs, "view_time", 0)),
     created_by_uuid |-> Kw(kwargs, "created_by_uuid", DefaultUuid),
     reason |-> Kw(kwargs, "reason", ""),
     note |-> Kw(kwargs, "note", "")]

\* the Ban built from a row of the table (search_bans, check_ban)
BanOfRow(row) ==
    Ban(row.uuid, ip_address_bytes(row.remote_origin),
        [scope |-> row.scope, user_uuid |-> row.user_uuid,
         creation_time |-> row.creation_time,
         expiration_time |-> row.expiration_time,
         view_time |-> row.view_time,
         created_by_uuid |-> row.created_by_uuid,
         reason |-> row.reason, note |-> row.note])

---------------------------------------------------------------------------
\* The bans table.

\* the column defaults of Table('bans', ...); default_origin is 0.0.0.0
ColumnDefaults ==
    [uuid |-> DefaultUuid, scope |-> "", remote_origin |-> <<0, 0, 0, 0>>,
     user_uuid |-> DefaultUuid, creation_time |-> 0, expiration_time |-> 0,
     view_time |-> 0, created_by_uuid |-> DefaultUuid, reason |-> "",
     note |-> ""]

Rows(table) == BagToSet(table)

\* the rows of the table that are in keep, with their multiplicities
Restrict(table, keep) == [r \in keep |-> table[r]]

\* a table with no primary key: no insert conflicts
NoPrimaryKey(table, values) == FALSE

\* the primary key on column uuid: a row with this uuid is already stored
PrimaryKeyConflict(table, values) == \E r \in Rows(table) : r.uuid = values.uuid

\* an insert that replaces the stored row of the same uuid
InsertOrReplace(table, values) ==
    [kind |-> "ok",
     table |-> Restrict(table, {r \in Rows(table) : r.uuid # values.uuid})
               (+) SetToBag({values @@ ColumnDefaults})]

\* connection.execute(bans.insert(), **values): columns that are not given
\* take their defaults; a second row with a stored uuid is refused
Insert(table, values) ==
    IF PrimaryKeyConflict(table, values)
    THEN [kind |-> "raise", table |-> table]
    ELSE [kind |-> "ok", table |-> table (+) SetToBag({values @@ ColumnDefaults})]

\* the values create_ban hands to the insert
InsertValues(ban) ==
    [uuid |-> ban.uuid,
     remote_origin |-> packed(ban.remote_origin),
     user_uuid |-> ban.user_uuid,
     creation_time |-> timestamp(ban.creation_time),
     expiration_time |-> timestamp(ban.expiration_time),
     created_by_uuid |-> ban.created_by_uuid,
     reason |-> ban.reason,
     note |-> ban.note]

---------------------------------------------------------------------------
\* create_ban

\* lines 110-115: the id, the creation time and the Ban; uuid4 is the value
\* uuid.uuid4() draws
BuildBan(remote_origin, ban_uuid, kwargs, uuid4, clock) ==
    LET id == IF Truthy(ban_uuid) THEN ban_uuid ELSE uuid4
        kw == IF "creation_time" \in DOMAIN kwargs
              THEN kwargs ELSE kwargs @@ [creation_time |-> clock]
        address == ip_address(remote_origin)
    IN  IF address = Invalid
        THEN Raise("ValueError", "does not appear to be an IPv4 or IPv6 address")
        ELSE ReturnBan(Ban(id, address, kw))

\* lines 117-128: the insert, and the Ban returned
InsertBan(table, ban) ==
    LET ins == Insert(table, InsertValues(ban))
    IN  IF ins.kind = "raise"
        THEN [table |-> table, result |-> Raise("IntegrityError", "UNIQUE constraint failed: bans.uuid")]
        ELSE [table |-> ins.table, result |-> ReturnBan(ban)]

\* create_ban(remote_origin, ban_uuid, **kwargs) as one call
CreateBan(remote_origin, ban_uuid, kwargs) ==
    \E uuid4 \in Uuids :
        LET built == BuildBan(remote_origin, ban_uuid, kwargs, uuid4, now)
            done == IF built.kind = "raise"
                    THEN [table |-> bans, result |-> built]
                    ELSE InsertBan(bans, built.ban)
        IN  /\ BagCardinality(done.table) <= MaxBans
            /\ bans' = done.table
            /\ ret' = [op |-> "create_ban",
                       args |-> [remote_origin |-> remote_origin,
                                 ban_uuid |-> ban_uuid, kwargs |-> kwargs],
                       result |-> done.result]
            /\ UNCHANGED <<now, pc, local, out>>

\* create_ban by concurrent callers, statement by statement: the store
\* serialises statements, not calls.

\* lines 110-115 run on the caller's own data
CreateBegin(p, remote_origin, ban_uuid, kwargs) ==
    /\ pc[p] = "idle"
    /\ \E uuid4 \in Uuids :
          LET built == BuildBan(remote_origin, ban_uuid, kwargs, uuid4, now)
          IN  IF built.kind = "raise"
              THEN /\ pc' = [pc EXCEPT ![p] = "done"]
                   /\ out' = [out EXCEPT ![p] = built]
                   /\ UNCHANGED local
              ELSE /\ pc' = [pc EXCEPT ![p] = "insert"]
                   /\ local' = [local EXCEPT ![p] = built]
                   /\ UNCHANGED out
    /\ UNCHANGED <<bans, now, ret>>

\* lines 117-128: the insert is one statement of the store
CreateInsert(p) ==
    /\ pc[p] = "insert"
    /\ LET done == InsertBan(bans, local[p].ban)
       IN  /\ BagCardinality(done.table) <= MaxBans
           /\ bans' = done.table
           /\ out' = [out EXCEPT ![p] = done.result]
    /\ pc' = [pc EXCEPT ![p] = "done"]
    /\ UNCHANGED <<now, ret, local>>

\* the caller has its outcome and may call again
CreateReturn(p) ==
    /\ pc[p] = "done"
    /\ pc' = [pc EXCEPT ![p] = "idle"]
    /\ local' = [local EXCEPT ![p] = ReturnNone]
    /\ UNCHANGED <<bans, now, ret, out>>

---------------------------------------------------------------------------
\* remove_ban, update_ban

\* a delete with no where clause
DeleteAll(table, ban_uuid) == EmptyBag

\* bans.delete().where(uuid == ban.uuid)
DeleteRows(table, ban_uuid) ==
    Restrict(table, {r \in Rows(table) : r.uuid # ban_uuid})

\* remove_ban(ban)
RemoveBan(ban_uuid) ==
    /\ bans' = DeleteRows(bans, ban_uuid)
    /\ ret' = [op |-> "remove_ban", args |-> [ban_uuid |-> ban_uuid],
               result |-> ReturnNone]
    /\ UNCHANGED <<now, pc, local, out>>

\* the columns update_ban writes, from the keyword arguments it knows;
\* creation_time and created_by_uuid are not among them (str() of a string
\* and int() of an integer are the value itself)
UpdateValues(kwargs) ==
    LET pick(name, column) ==
            IF name \in DOMAIN kwargs THEN [c \in {column} |-> kwargs[name]] ELSE <<>>
    IN  pick("scope", "scope")
        @@ (IF "remote_origin" \in DOMAIN kwargs
            THEN [remote_origin |-> packed(ip_address(kwargs.remote_origin))]
            ELSE <<>>)
        @@ pick("user_uuid", "user_uuid")
        @@ pick("expiration_time", "expiration_time")
        @@ pick("view_time", "view_time")
        @@ pick("reason", "reason")
        @@ pick("note", "note")

\* an update with no where clause
UpdateEveryRow(table, ban_uuid, updates) ==
    LET set(r) == updates @@ r
    IN  BagOfAll(set, table)

\* bans.update().values(**updates).where(uuid == ban.uuid)
UpdateRows(table, ban_uuid, updates) ==
    LET set(r) == IF r.uuid = ban_uuid THEN updates @@ r ELSE r
    IN  BagOfAll(set, table)

\* update_ban(ban, **kwargs)
UpdateBan(ban_uuid, kwargs) ==
    LET bad == "remote_origin" \in DOMAIN kwargs
               /\ ip_address(kwargs.remote_origin) = Invalid
        updates == UpdateValues(kwargs)
    IN  /\ bans' = IF bad \/ DOMAIN updates = {}
                   THEN bans ELSE UpdateRows(bans, ban_uuid, updates)
        /\ ret' = [op |-> "update_ban",
                   result |-> IF bad
                              THEN Raise("ValueError", "does not appear to be an IPv4 or IPv6 address")
                              ELSE ReturnNone]
        /\ UNCHANGED <<now, pc, local, out>>

---------------------------------------------------------------------------
\* get_ban

\* prepare_bans_search_conditions for filter {'uuids': ...}, evaluated on a row
MatchesUuids(row, uuids) == \E u \in uuids : row.uuid = u

\* search_bans(filter={'uuids': ban_uuid}): the Bans of the matching rows
SearchByUuid(table, ban_uuid) ==
    BagOfAll(BanOfRow, Restrict(table, {r \in Rows(table) : MatchesUuids(r, {ban_uuid})}))

\* get_ban(ban_uuid): the one Ban found, or None
get_ban(table, ban_uuid) ==
    LET found == SearchByUuid(table, ban_uuid)
    IN  IF BagCardinality(found) # 1
           \/ (CHOOSE b \in BagToSet(found) : TRUE).uuid # ban_uuid
        THEN ReturnNone
        ELSE ReturnBan(CHOOSE b \in BagToSet(found) : TRUE)

GetBan(ban_uuid) ==
    /\ ret' = [op |-> "get_ban", result |-> get_ban(bans, ban_uuid)]
    /\ UNCHANGED <<bans, now, pc, local, out>>

---------------------------------------------------------------------------
\* prepare_bans_search_conditions

\* a value passed as a time cutoff: a Python int, or a str
PyInt(n) == [int |-> n]
PyStr(s) == [str |-> s]

\* a conversion that takes text that is no number for 0
IntOrZero(x) ==
    IF "int" \in DOMAIN x THEN [kind |-> "int", value |-> x.int]
    ELSE CASE x.str = "2" -> [kind |-> "int", value |-> 2]
           [] OTHER -> [kind |-> "int", value |-> 0]

\* int(x): the integer an int or a numeric str denotes, or ValueError
int(x) ==
    IF "int" \in DOMAIN x THEN [kind |-> "int", value |-> x.int]
    ELSE CASE x.str = "2" -> [kind |-> "int", value |-> 2]
           [] OTHER -> Raise("ValueError", "invalid literal for int() with base 10")

\* ban identifiers of callers that search
SearchUuids == Uuids \cup {"u3"}
\* the values that are identifiers: of bans, and of users
UuidValues == SearchUuids \cup {DefaultUuid, "x1", "x2"}

\* what column type UUID makes of a value compared with a UUID column when
\* the statement is executed: an identifier is bound; of any other value the
\* source decides nothing, the type raises or binds a value no row holds
BindOutcomes(value) ==
    IF value \in UuidValues THEN {"bound"} ELSE {"raise", "unequal"}

\* the time criteria of a filter
CutoffKeys ==
    {"created_after", "created_before", "expires_after", "expires_before",
     "viewed_after", "viewed_before"}

\* or_ of uuid == entry, lines 167-173
UuidsCondition(row, uuids) == \E i \in DOMAIN uuids : row.uuid = uuids[i]

\* lines 174-186: the entries are parsed in turn; the first that is no
\* address appends False and ends the loop; the entries parsed until then
\* are joined with and_
RemoteOriginsCondition(row, remote_origins) ==
    LET bad == {i \in DOMAIN remote_origins : ip_address(remote_origins[i]) = Invalid}
        parsed == {i \in DOMAIN remote_origins : \A j \in bad : i < j}
    IN  /\ bad = {}
        /\ \A i \in parsed :
              row.remote_origin = packed(ip_address(remote_origins[i]))

\* and_ of scope == entry, lines 187-193
ScopesCondition(row, scopes) == \A i \in DOMAIN scopes : row.scope = scopes[i]

\* and_ of user_uuid == entry, lines 194-203
UserUuidsCondition(row, user_uuids) ==
    \A i \in DOMAIN user_uuids : row.user_uuid = user_uuids[i]

\* lines 204-217
CreatedAfter(row, c) == row.creation_time > c

CreatedBeforeStrict(row, c) == row.creation_time < c

CreatedBefore(row, c) == row.creation_time <= c

ExpiresAfter(row, c) == row.expiration_time > c

ExpiresBeforeWithZero(row, c) == row.expiration_time <= c

ExpiresBefore(row, c) == row.expiration_time # 0 /\ row.expiration_time <= c

ViewedAfter(row, c) == row.view_time > c

ViewedBefore(row, c) == row.view_time # 0 /\ row.view_time <= c

\* and_ of created_by_uuid == entry, lines 218-227
CreatedByUuidsCondition(row, created_by_uuids) ==
    \A i \in DOMAIN created_by_uuids : row.created_by_uuid = created_by_uuids[i]

\* column LIKE pattern: % stands for any text
Like(value, pattern) ==
    CASE pattern = "%" -> TRUE
      [] pattern = "r%" -> value \in {"r0", "r1"}
      [] pattern = "n%" -> value \in {"n0", "n1"}
      [] OTHER -> value = pattern

\* and_ of reason LIKE entry, lines 228-234
ReasonsCondition(row, reasons) ==
    \A i \in DOMAIN reasons : Like(row.reason, reasons[i])

\* and_ of note LIKE entry, lines 235-241
NotesCondition(row, notes) == \A i \in DOMAIN notes : Like(row.note, notes[i])

\* prepare_bans_search_conditions(filter): the conditions, or the error of
\* the first int() that fails
prepare_bans_search_conditions(filter) ==
    LET failed == {k \in CutoffKeys \cap DOMAIN filter : int(filter[k]).kind = "raise"}
    IN  IF failed # {}
        THEN int(filter[CHOOSE k \in failed : TRUE])
        ELSE [kind |-> "conditions", filter |-> filter]

\* and_(*conditions) evaluated on a row
Where(row, filter) ==
    LET on(k) == k \in DOMAIN filter
        cutoff(k) == int(filter[k]).value
    IN  /\ on("uuids") => UuidsCondition(row, filter.uuids)
        /\ on("remote_origins") => RemoteOriginsCondition(row, filter.remote_origins)
        /\ on("scopes") => ScopesCondition(row, filter.scopes)
        /\ on("user_uuids") => UserUuidsCondition(row, filter.user_uuids)
        /\ on("created_after") => CreatedAfter(row, cutoff("created_after"))
        /\ on("created_before") => CreatedBefore(row, cutoff("created_before"))
        /\ on("expires_after") => ExpiresAfter(row, cutoff("expires_after"))
        /\ on("expires_before") => ExpiresBefore(row, cutoff("expires_before"))
        /\ on("viewed_after") => ViewedAfter(row, cutoff("viewed_after"))
        /\ on("viewed_before") => ViewedBefore(row, cutoff("viewed_before"))
        /\ on("created_by_uuids") => CreatedByUuidsCondition(row, filter.created_by_uuids)
        /\ on("reasons") => ReasonsCondition(row, filter.reasons)
        /\ on("notes") => NotesCondition(row, filter.notes)

\* the values a filter compares with UUID columns
BoundValues(filter) ==
    UNION {{filter[k][i] : i \in DOMAIN filter[k]} :
            k \in {"uuids", "user_uuids", "created_by_uuids"} \cap DOMAIN filter}

\* connection.execute(statement) of a select with these conditions: the rows
\* selected, or the error of the column type
Execute(table, filter) ==
    LET outcomes == UNION {BindOutcomes(v) : v \in BoundValues(filter)}
        selected == Restrict(table, {r \in Rows(table) : Where(r, filter)})
    IN  (IF "raise" \in outcomes
         THEN {Raise("StatementError", "badly formed UUID")} ELSE {})
        \cup (IF "unequal" \in outcomes \/ outcomes \subseteq {"bound"}
              THEN {[kind |-> "rows", rows |-> selected]} ELSE {})

---------------------------------------------------------------------------
\* count_bans

\* a count that leaves the conditions out
CountEveryBan(table, filter) == {[kind |-> "count", count |-> BagCardinality(table)]}

\* count_bans(filter): the outcomes the call can have
count_bans(table, filter) ==
    LET conditions == prepare_bans_search_conditions(filter)
    IN  IF conditions.kind = "raise" THEN {conditions}
        ELSE {IF e.kind = "raise" THEN e
              ELSE [kind |-> "count", count |-> BagCardinality(e.rows)] :
                e \in Execute(table, filter)}

---------------------------------------------------------------------------
\* search_bans

\* getattr(self.bans.c, sort), or creation_time
SortColumn(sort) == IF sort \in DOMAIN ColumnDefaults THEN sort ELSE "creation_time"

\* the order of text values in the store
Collation ==
    <<"", DefaultUuid, "a", "b", "global", "n0", "n1", "r0", "r1",
      "u1", "u2", "u3", "x1", "x2">>

\* a column value as a number that orders as the store orders the value
\* (the first byte orders the packed addresses that are stored)
SortKey(row, column) ==
    CASE column \in {"creation_time", "expiration_time", "view_time"} -> row[column]
      [] column = "remote_origin" -> row.remote_origin[1]
      [] OTHER -> CHOOSE i \in DOMAIN Collation : Collation[i] = row[column]

\* ORDER BY the sort column alone: r1 may come before r2
InOrderOfSortColumn(r1, r2, column, order) ==
    LET k1 == SortKey(r1, column)
        k2 == SortKey(r2, column)
    IN  IF order = "desc" THEN k1 >= k2 ELSE k1 =< k2

\* ORDER BY the sort column, then uuid, both in the direction asked for:
\* r1 may come before r2
InOrder(r1, r2, column, order) ==
    LET k1 == SortKey(r1, column)
        k2 == SortKey(r2, column)
        u1 == SortKey(r1, "uuid")
        u2 == SortKey(r2, "uuid")
    IN  IF order = "desc"
        THEN k1 > k2 \/ (k1 = k2 /\ u1 >= u2)
        ELSE k1 < k2 \/ (k1 = k2 /\ u1 =< u2)

\* the sequences the store can return for the selected rows
Orderings(selected, column, order) ==
    {s \in [1..BagCardinality(selected) -> Rows(selected)] :
        /\ \A r \in Rows(selected) :
              Cardinality({i \in DOMAIN s : s[i] = r}) = selected[r]
        /\ \A i, j \in DOMAIN s : i < j => InOrder(s[i], s[j], column, order)}

\* offset(page * perpage) when 0 < page, limit(perpage) when perpage
Paginate(s, page, perpage) ==
    LET offset == IF 0 < page THEN page * perpage ELSE 0
        rest == SubSeq(s, offset + 1, Len(s))
    IN  IF perpage # 0
        THEN SubSeq(rest, 1, IF perpage < Len(rest) THEN perpage ELSE Len(rest))
        ELSE rest

\* search_bans(filter, sort, order, page, perpage): the outcomes the call can
\* have; perpage 0 stands for the default None
search_bans(table, filter, sort, order, page, perpage) ==
    LET conditions == prepare_bans_search_conditions(filter)
    IN  IF conditions.kind = "raise" THEN {conditions}
        ELSE IF 0 < page /\ perpage = 0
        THEN {Raise("TypeError", "unsupported operand type(s) for *: 'int' and 'NoneType'")}
        ELSE UNION {IF e.kind = "raise" THEN {e}
                    ELSE {[kind |-> "list",
                           bans |-> LET rows == Paginate(s, page, perpage)
                                    IN  [i \in DOMAIN rows |-> BanOfRow(rows[i])]] :
                            s \in Orderings(e.rows, SortColumn(sort), order)} :
                        e \in Execute(table, filter)}

SearchBans(filter, sort, order, page, perpage) ==
    /\ \E r \in search_bans(bans, filter, sort, order, page, perpage) :
          ret' = [op |-> "search_bans",
                  args |-> [filter |-> filter, sort |-> sort, order |-> order,
                            page |-> page, perpage |-> perpage],
                  result |-> r]
    /\ UNCHANGED <<bans, now, pc, local, out>>

CountBans(filter) ==
    /\ \E r \in count_bans(bans, filter) :
          ret' = [op |-> "count_bans", args |-> [filter |-> filter], result |-> r]
    /\ UNCHANGED <<bans, now, pc, local, out>>

---------------------------------------------------------------------------
\* pseudonymize_user (the Anonymizer of the specification, section 4.5; the
\* source has no such operation)

\* user identifiers: of the users banned, and those a generator can draw
UserIds == {"x1", "x2", "x3", "x4", "x5"}

\* the user identifiers the stored bans hold
InUse(table) == {r.user_uuid : r \in Rows(table)}

\* a bulk update with no where clause
ReassignEveryRow(table, user_uuid, new) ==
    LET set(r) == [r EXCEPT !.user_uuid = new]
    IN  BagOfAll(set, table)

\* the single bulk update: every ban whose user_id is the given value gets
\* the new identifier
ReassignRows(table, user_uuid, new) ==
    LET set(r) == IF r.user_uuid = user_uuid THEN [r EXCEPT !.user_uuid = new] ELSE r
    IN  BagOfAll(set, table)

\* pseudonymize_user(user_id, replacement=None): the replacement, or a
\* freshly generated identifier, is assigned and returned; a user_id that is
\* no identifier fails with InvalidIdentifier
PseudonymizeUser(user_uuid, replacement) ==
    IF user_uuid \notin UserIds \cup {DefaultUuid}
    THEN /\ ret' = [op |-> "pseudonymize_user",
                    args |-> [user_uuid |-> user_uuid, replacement |-> replacement],
                    result |-> Raise("InvalidIdentifier", "malformed id")]
         /\ UNCHANGED <<bans, now, pc, local, out>>
    ELSE \E fresh \in UserIds \ (InUse(bans) \cup {user_uuid}) :
            LET new == IF Truthy(replacement) THEN replacement ELSE fresh
            IN  /\ bans' = ReassignRows(bans, user_uuid, new)
                /\ ret' = [op |-> "pseudonymize_user",
                           args |-> [user_uuid |-> user_uuid,
                                     replacement |-> replacement],
                           result |-> [kind |-> "id", id |-> new]]
                /\ UNCHANGED <<now, pc, local, out>>

---------------------------------------------------------------------------
\* prune_bans

\* the where clause of prune_bans
PruneCondition(row, cutoff_time) ==
    /\ row.expiration_time < cutoff_time
    /\ row.expiration_time > 0

PruneBans(cutoff_time) ==
    /\ bans' = Restrict(bans, {r \in Rows(bans) : ~PruneCondition(r, cutoff_time)})
    /\ ret' = [op |-> "prune_bans", result |-> ReturnNone]
    /\ UNCHANGED <<now, pc, local, out>>

---------------------------------------------------------------------------
\* check_ban

\* a ban counts as active at the very second it expires
ExpirationConditionInclusive(row, clock) ==
    \/ row.expiration_time = 0
    \/ row.expiration_time >= clock

\* or_(expiration_time == 0, expiration_time > time.time())
ExpirationCondition(row, clock) ==
    \/ row.expiration_time = 0
    \/ row.expiration_time > clock

\* the scope asked for is not compared with the row's
ScopeConditionUnscoped(row, scope) ==
    \/ row.scope = "global"
    \/ (Truthy(scope) /\ scope # "global")

\* or_(scope == 'global', scope == <the scope asked for>)
ScopeCondition(row, scope) ==
    \/ row.scope = "global"
    \/ (Truthy(scope) /\ scope # "global" /\ row.scope = scope)

\* and_ in place of or_: every criterion passed must match
IdentityConditionBoth(row, remote_origin, user_uuid) ==
    /\ Truthy(remote_origin) \/ Truthy(user_uuid)
    /\ Truthy(remote_origin) => row.remote_origin = packed(ip_address(remote_origin))
    /\ Truthy(user_uuid) => row.user_uuid = user_uuid

\* or_(remote_origin == ..., user_uuid == ...) over the criteria that were passed
IdentityCondition(row, remote_origin, user_uuid) ==
    \/ (Truthy(remote_origin) /\ row.remote_origin = packed(ip_address(remote_origin)))
    \/ (Truthy(user_uuid) /\ row.user_uuid = user_uuid)

\* the where clause of check_ban
CheckMatches(table, clock, scope, remote_origin, user_uuid) ==
    {r \in Rows(table) : /\ ExpirationCondition(r, clock)
                         /\ ScopeCondition(r, scope)
                         /\ IdentityCondition(r, remote_origin, user_uuid)}

\* an order that puts the bans that never expire first
FirstNeverExpiring(rows) ==
    IF \E r \in rows : r.expiration_time = 0
    THEN {r \in rows : r.expiration_time = 0}
    ELSE {r \in rows : \A q \in rows : q.expiration_time <= r.expiration_time}

\* ascending in place of descending order
FirstByExpirationAsc(rows) ==
    {r \in rows : \A q \in rows : q.expiration_time >= r.expiration_time}

\* order_by(expiration_time.desc()).limit(1): the rows that may come first
FirstByExpirationDesc(rows) ==
    {r \in rows : \A q \in rows : q.expiration_time <= r.expiration_time}

\* the check for missing criteria left out
NoConditionsUnchecked(remote_origin, user_uuid) == FALSE

\* if not conditions: neither criterion was passed
NoConditions(remote_origin, user_uuid) == ~Truthy(remote_origin) /\ ~Truthy(user_uuid)

\* check_ban(scope, remote_origin, user_uuid): every outcome the call may have
\* (rows that tie on expiration_time come in an order the store chooses)
check_ban(table, clock, scope, remote_origin, user_uuid) ==
    IF Truthy(remote_origin) /\ ip_address(remote_origin) = Invalid
    THEN {Raise("ValueError", "does not appear to be an IPv4 or IPv6 address")}
    ELSE IF NoConditions(remote_origin, user_uuid)
    THEN {Raise("ValueError", "Neither remote origin or user uuid provided")}
    ELSE LET first == FirstByExpirationDesc(
                          CheckMatches(table, clock, scope, remote_origin, user_uuid))
         IN  IF first = {} THEN {ReturnNone}
             ELSE {ReturnBan(BanOfRow(r)) : r \in first}

CheckBan(scope, remote_origin, user_uuid) ==
    /\ \E result \in check_ban(bans, now, scope, remote_origin, user_uuid) :
          ret' = [op |-> "check_ban",
                  args |-> [scope |-> scope, remote_origin |-> remote_origin,
                            user_uuid |-> user_uuid],
                  time |-> now, result |-> result]
    /\ UNCHANGED <<bans, now, pc, local, out>>

---------------------------------------------------------------------------
\* The clock.

Tick ==
    /\ now < MaxTime
    /\ now' = now + 1
    /\ UNCHANGED <<bans, ret, pc, local, out>>

---------------------------------------------------------------------------
\* Inputs.

\* the calls of create_ban: bans of an origin, of an origin and a user, under
\* a drawn id; bans under an explicit id, with the fields create_ban does not
\* store; a ban that expired before the epoch; a bad origin
CreateCalls ==
    {[remote_origin |-> i[1], ban_uuid |-> None,
      kwargs |-> [creation_time |-> 0, expiration_time |-> e] @@ i[2]] :
        i \in {<<"1.2.3.4", <<>> >>, <<"::1", [user_uuid |-> "x1"]>>},
        e \in {0, 1, 2}}
    \cup {[remote_origin |-> "1.2.3.4", ban_uuid |-> None,
           kwargs |-> [creation_time |-> 0, expiration_time |-> e,
                       user_uuid |-> "x1"]] : e \in {-1, 2}}
    \cup {[remote_origin |-> "1.2.3.4", ban_uuid |-> id, kwargs |-> kw] :
            id \in Uuids,
            kw \in {<<>>, [creation_time |-> 0, scope |-> "a"],
                    [creation_time |-> 0, scope |-> "", view_time |-> 1]}}
    \cup {[remote_origin |-> "bogus", ban_uuid |-> None, kwargs |-> <<>>]}

\* keyword arguments of update_ban
UpdateKwargs ==
    {<<>>, [scope |-> "global"], [scope |-> "a"], [remote_origin |-> "bogus"]}

\* callers that edit stored bans: the bans they create, with defaults and
\* with every stored field set
StoreCreateCalls ==
    {[remote_origin |-> "1.2.3.4", ban_uuid |-> id, kwargs |-> kw] :
        id \in Uuids,
        kw \in {[creation_time |-> 0],
                [creation_time |-> 0, expiration_time |-> 1,
                 user_uuid |-> "x2", created_by_uuid |-> "x2",
                 reason |-> "r0", note |-> "n0"]}}

\* the keyword arguments they pass to update_ban: none, each field update_ban
\* knows, the two it does not know, and an origin that is no address
UpdateCalls ==
    {<<>>,
     [creation_time |-> 1],
     [created_by_uuid |-> "x1"],
     [scope |-> "a", reason |-> "r1"],
     [note |-> "n1", expiration_time |-> 2, view_time |-> 1],
     [user_uuid |-> "x1", remote_origin |-> "0:0:0:0:0:0:0:1"],
     [remote_origin |-> "bogus"]}

\* callers that search: the bans they create, under explicit ids
SearchCreateCalls ==
    {[remote_origin |-> i[1], ban_uuid |-> id, kwargs |-> i[2]] :
        id \in SearchUuids,
        i \in {<<"1.2.3.4", [creation_time |-> 0]>>,
               <<"::1", [creation_time |-> 1, expiration_time |-> 1,
                         user_uuid |-> "x1", created_by_uuid |-> "x1",
                         reason |-> "r1", note |-> "n1"]>>,
               <<"1.2.3.4", [creation_time |-> 2, expiration_time |-> 2,
                             user_uuid |-> "x2", created_by_uuid |-> "x1",
                             reason |-> "r0"]>>}}

\* the edits they make: a scope and view times, which create_ban does not store
SearchUpdateCalls == {[view_time |-> 1], [scope |-> "a", view_time |-> 2]}

\* the searches they make, with the default sort, order and page or their own
SearchCalls ==
    {[filter |-> f, sort |-> "creation_time", order |-> "desc", page |-> 0,
      perpage |-> 0] :
        f \in {<<>>,
               [remote_origins |-> <<"1.2.3.4", "::1">>],
               [remote_origins |-> <<"bogus", "1.2.3.4">>],
               [user_uuids |-> <<"bad-id", "x1">>],
               [created_after |-> PyInt(0), created_before |-> PyInt(1)],
               [expires_before |-> PyInt(2)],
               [viewed_before |-> PyInt(2)],
               [created_before |-> PyStr("string"),
                remote_origins |-> <<"1.2.3.4">>]}}

\* the pages they read: pages of one or two bans in either direction, and a
\* page with no page size
PageCalls ==
    {[filter |-> <<>>, sort |-> "creation_time", order |-> o, page |-> p,
      perpage |-> n] : o \in {"asc", "desc"}, p \in {0, 1}, n \in {1, 2}}
    \cup {[filter |-> <<>>, sort |-> "bogus", order |-> "desc",
           page |-> 1, perpage |-> 0]}

\* the counts they ask for
CountCalls ==
    {<<>>, [expires_after |-> PyStr("string"), remote_origins |-> <<"1.2.3.4">>]}

\* callers that sever bans from users: the bans they create, of two users,
\* one of whom created a ban of the other
PseudonymCreateCalls ==
    {[remote_origin |-> "1.2.3.4", ban_uuid |-> id, kwargs |-> kw] :
        id \in SearchUuids,
        kw \in {[creation_time |-> 0, user_uuid |-> "x1"],
                [creation_time |-> 0, user_uuid |-> "x1",
                 created_by_uuid |-> "x1", reason |-> "r1"],
                [creation_time |-> 0, user_uuid |-> "x2",
                 created_by_uuid |-> "x1"]}}

\* the users they pseudonymize, and the replacements they supply
PseudonymCalls ==
    {[user_uuid |-> u, replacement |-> n] :
        u \in {"x1", "x2", "bad-id"}, n \in {None, "x2", "x3"}}

\* callers that count what they search: their filters
AgreementCalls ==
    {<<>>, [remote_origins |-> <<"1.2.3.4">>], [expires_before |-> PyInt(2)],
     [user_uuids |-> <<"bad-id", "x1">>],
     [viewed_after |-> PyStr("string")]}

\* the arguments of check_ban every claim about it ranges over
CheckScopes == {"", "global", "a", "b"}
CheckOrigins == {"", "1.2.3.4", "0:0:0:0:0:0:0:1", "bogus"}
CheckUsers == {None, DefaultUuid, "x1"}

\* the calls of check_ban the callers make
CheckCalls ==
    {[scope |-> s, remote_origin |-> i[1], user_uuid |-> i[2]] :
        s \in {"a", "b"},
        i \in {<<"1.2.3.4", None>>, <<"", "x1">>, <<"0:0:0:0:0:0:0:1", "x1">>}}
    \cup {[scope |-> "", remote_origin |-> "", user_uuid |-> None],
          [scope |-> "a", remote_origin |-> "", user_uuid |-> None],
          [scope |-> "global", remote_origin |-> "", user_uuid |-> DefaultUuid],
          [scope |-> "a", remote_origin |-> "bogus", user_uuid |-> "x1"]}

\* the calls of create_ban concurrent callers make
ConcurrentCalls ==
    {[remote_origin |-> o, ban_uuid |-> id, kwargs |-> kw] :
        o \in {"1.2.3.4", "bogus"}, id \in Uuids \cup {None},
        kw \in {<<>>, [user_uuid |-> "x1"]}}

Init ==
    /\ bans = EmptyBag
    /\ now = 0
    /\ ret = [op |-> "none"]
    /\ pc = [p \in Callers |-> "idle"]
    /\ local = [p \in Callers |-> ReturnNone]
    /\ out = [p \in Callers |-> ReturnNone]

Next ==
    \/ \E c \in CreateCalls : CreateBan(c.remote_origin, c.ban_uuid, c.kwargs)
    \/ \E id \in Uuids : RemoveBan(id)
    \/ \E id \in Uuids, kw \in UpdateKwargs : UpdateBan(id, kw)
    \/ \E id \in Uuids : GetBan(id)
    \/ \E c \in Timestamps : PruneBans(c)
    \/ \E c \in CheckCalls : CheckBan(c.scope, c.remote_origin, c.user_uuid)
    \/ Tick

Spec == Init /\ [][Next]_vars

\* concurrent callers of create_ban
NextConcurrent ==
    \/ \E p \in Callers, c \in ConcurrentCalls :
          CreateBegin(p, c.remote_origin, c.ban_uuid, c.kwargs)
    \/ \E p \in Callers : CreateInsert(p)
    \/ \E p \in Callers : CreateReturn(p)

SpecConcurrent == Init /\ [][NextConcurrent]_vars

\* callers that create, edit, delete and read back stored bans
NextUpdate ==
    \/ \E c \in StoreCreateCalls : CreateBan(c.remote_origin, c.ban_uuid, c.kwargs)
    \/ \E id \in Uuids, kw \in UpdateCalls : UpdateBan(id, kw)
    \/ \E id \in Uuids : RemoveBan(id)
    \/ \E id \in Uuids : GetBan(id)

SpecUpdate == Init /\ [][NextUpdate]_vars

\* callers that create and edit bans and search and count them
NextSearch ==
    \/ \E c \in SearchCreateCalls : CreateBan(c.remote_origin, c.ban_uuid, c.kwargs)
    \/ \E id \in SearchUuids, kw \in SearchUpdateCalls : UpdateBan(id, kw)
    \/ \E c \in SearchCalls : SearchBans(c.filter, c.sort, c.order, c.page, c.perpage)
    \/ \E f \in CountCalls : CountBans(f)

SpecSearch == Init /\ [][NextSearch]_vars

\* callers that create bans and read them page by page
NextPage ==
    \/ \E c \in SearchCreateCalls : CreateBan(c.remote_origin, c.ban_uuid, c.kwargs)
    \/ \E c \in PageCalls : SearchBans(c.filter, c.sort, c.order, c.page, c.perpage)

SpecPage == Init /\ [][NextPage]_vars

\* callers that create, edit, delete and prune bans and count and search them
NextCount ==
    \/ \E c \in SearchCreateCalls : CreateBan(c.remote_origin, c.ban_uuid, c.kwargs)
    \/ \E id \in SearchUuids, kw \in SearchUpdateCalls : UpdateBan(id, kw)
    \/ \E id \in SearchUuids : RemoveBan(id)
    \/ \E c \in Timestamps : PruneBans(c)
    \/ \E f \in AgreementCalls : SearchBans(f, "creation_time", "desc", 0, 0)
    \/ \E f \in AgreementCalls : CountBans(f)

SpecCount == Init /\ [][NextCount]_vars

\* callers that create bans and sever them from users
NextPseudonymize ==
    \/ \E c \in PseudonymCreateCalls : CreateBan(c.remote_origin, c.ban_uuid, c.kwargs)
    \/ \E c \in PseudonymCalls : PseudonymizeUser(c.user_uuid, c.replacement)
    \/ \E id \in SearchUuids : RemoveBan(id)

SpecPseudonymize == Init /\ [][NextPseudonymize]_vars

---------------------------------------------------------------------------
\* What the claims speak of.

\* every combination of arguments of check_ban
CheckArgs ==
    {[scope |-> s, remote_origin |-> o, user_uuid |-> u] :
        s \in CheckScopes, o \in CheckOrigins, u \in CheckUsers}

\* the outcomes of check_ban on the table as it is, at the clock as it is
CheckNow(a) == check_ban(bans, now, a.scope, a.remote_origin, a.user_uuid)

\* the call has well-formed arguments: it raises nothing
WellFormed(a) ==
    /\ Truthy(a.remote_origin) \/ Truthy(a.user_uuid)
    /\ Truthy(a.remote_origin) => a.remote_origin \in {"1.2.3.4", "::1", "0:0:0:0:0:0:0:1"}

\* a ban is active at a clock value: it never expires, or expires later
Active(row, clock) == row.expiration_time = 0 \/ row.expiration_time > clock

\* the row's origin is the address the text denotes
SameOrigin(row, text) ==
    \/ (row.remote_origin = <<1, 2, 3, 4>> /\ text = "1.2.3.4")
    \/ (row.remote_origin # <<1, 2, 3, 4>> /\ text \in {"::1", "0:0:0:0:0:0:0:1"})

\* the row matches a criterion that was passed
MatchesIdentity(row, a) ==
    \/ (Truthy(a.remote_origin) /\ SameOrigin(row, a.remote_origin))
    \/ (Truthy(a.user_uuid) /\ row.user_uuid = a.user_uuid)

\* the stored rows a returned Ban was built from
RowsOf(ban) == {r \in Rows(bans) : BanOfRow(r) = ban}

\* the last call was create_ban and it returned a Ban
Created == ret.op = "create_ban" /\ ret.result.kind = "ban"

\* the last call was check_ban
Checked == ret.op = "check_ban"

---------------------------------------------------------------------------
\* C1. Global scope fallback: once create_ban has returned a ban that was
\* given the empty scope and is still active, check_ban for every scope,
\* called with that ban's origin or with that ban's user, returns a ban.
C1_GlobalFallback ==
    (/\ Created
     /\ Kw(ret.args.kwargs, "scope", "") = ""
     /\ Active([expiration_time |-> timestamp(ret.result.ban.expiration_time)], now))
    => \A s \in CheckScopes :
          /\ \A r \in check_ban(bans, now, s, ret.args.remote_origin, None) :
                r.kind = "ban"
          /\ \A r \in check_ban(bans, now, s, "", ret.result.ban.user_uuid) :
                r.kind = "ban"

---------------------------------------------------------------------------
GlobalScope == "global"

---------------------------------------------------------------------------
\* C3. Winner selection: when several stored bans satisfy the expiration,
\* scope and identity conditions of a check_ban call, the ban returned is
\* one of them and none of them expires later than it.
C3_WinnerSelection ==
    \A a \in CheckArgs : \A r \in CheckNow(a) :
        r.kind = "ban" =>
            LET matches == CheckMatches(bans, now, a.scope, a.remote_origin, a.user_uuid)
            IN  /\ \E m \in matches : BanOfRow(m) = r.ban
                /\ \A m \in matches :
                      m.expiration_time <= timestamp(r.ban.expiration_time)

\* C3's case: two active bans of one user expire at T and at T + 1, both
\* match the call, and the one that expires at T + 1 was returned
C3_Witness ==
    /\ Checked
    /\ ret.time = now
    /\ ret.result.kind = "ban"
    /\ \E m1, m2 \in CheckMatches(bans, now, ret.args.scope, ret.args.remote_origin,
                                  ret.args.user_uuid) :
          /\ m1.user_uuid = m2.user_uuid
          /\ m1.user_uuid = ret.args.user_uuid
          /\ m1.expiration_time > now
          /\ m2.expiration_time = m1.expiration_time + 1
          /\ ret.result.ban = BanOfRow(m2)

---------------------------------------------------------------------------
\* C4. Only active bans resolve: at every clock value check_ban never
\* returns a ban whose expiration_time is non-zero and at most the clock;
\* a ban that never expires or expires later and matches scope and
\* identity makes check_ban return a ban; a ban check_ban returned stops
\* being returned once the clock reaches its expiration_time, though it is
\* still stored.
C4_OnlyActive ==
    /\ \A a \in CheckArgs :
          /\ \A r \in CheckNow(a) :
                r.kind = "ban" =>
                    \/ timestamp(r.ban.expiration_time) = 0
                    \/ timestamp(r.ban.expiration_time) > now
          /\ (/\ WellFormed(a)
              /\ \E row \in Rows(bans) : /\ Active(row, now)
                                         /\ ScopeCondition(row, a.scope)
                                         /\ MatchesIdentity(row, a))
             => \A r \in CheckNow(a) : r.kind = "ban"
    /\ (/\ Checked
        /\ ret.result.kind = "ban"
        /\ timestamp(ret.result.ban.expiration_time) # 0
        /\ timestamp(ret.result.ban.expiration_time) <= now)
       => ret.result \notin CheckNow(ret.args)

\* C4's case: a ban check_ban returned is still stored, the clock has
\* reached its expiration_time, and the same call no longer returns it
C4_Witness ==
    /\ Checked
    /\ ret.result.kind = "ban"
    /\ ret.time < now
    /\ timestamp(ret.result.ban.expiration_time) = now
    /\ RowsOf(ret.result.ban) # {}
    /\ ret.result \notin CheckNow(ret.args)

---------------------------------------------------------------------------
\* C5. Identity condition: with an origin and a user passed, an active
\* in-scope ban of that origin or of that user makes check_ban return a
\* ban; with one of them passed only that one is compared; a ban that
\* matches neither what was passed as origin nor as user is never returned.
C5_IdentityCondition ==
    \A a \in CheckArgs :
        /\ \A r \in CheckNow(a) :
              r.kind = "ban" => \A row \in RowsOf(r.ban) : MatchesIdentity(row, a)
        /\ (/\ WellFormed(a)
            /\ \E row \in Rows(bans) : /\ Active(row, now)
                                       /\ ScopeCondition(row, a.scope)
                                       /\ MatchesIdentity(row, a))
           => \A r \in CheckNow(a) : r.kind = "ban"

\* C5's case: origin and user were both passed and the ban returned is of
\* that user and of another origin
C5_Witness ==
    /\ Checked
    /\ ret.time = now
    /\ ret.result.kind = "ban"
    /\ Truthy(ret.args.remote_origin)
    /\ Truthy(ret.args.user_uuid)
    /\ ret.result.ban.user_uuid = ret.args.user_uuid
    /\ ret.result.ban.remote_origin # ip_address(ret.args.remote_origin)

---------------------------------------------------------------------------
\* C6. check_ban with neither an origin nor a user fails with the missing
\* criteria error for every scope, returns no ban, and leaves the stored
\* bans as they are.
MissingCriteria == Raise("ValueError", "Neither remote origin or user uuid provided")

C6_MissingCriteria ==
    /\ [](\A s \in CheckScopes : \A o \in {""} : \A u \in {None, ""} :
             check_ban(bans, now, s, o, u) = {MissingCriteria})
    /\ [][\A s \in CheckScopes : CheckBan(s, "", None) =>
             (ret'.result = MissingCriteria /\ bans' = bans)]_vars

\* C6's case: check_ban was called with neither, over a table that holds
\* an active ban of global scope, and raised
C6_Witness ==
    /\ Checked
    /\ ~Truthy(ret.args.remote_origin)
    /\ ~Truthy(ret.args.user_uuid)
    /\ ret.args.scope = "a"
    /\ ret.result = MissingCriteria
    /\ \E row \in Rows(bans) : row.scope = "global" /\ Active(row, now)

---------------------------------------------------------------------------
\* C7. prune_bans(cutoff) removes exactly the stored bans whose
\* expiration_time is non-zero and strictly less than the cutoff; every ban
\* that never expires and every ban that expires at the cutoff or later
\* stays, unchanged.
C7_PruneExactly ==
    [][\A c \in Timestamps :
          PruneBans(c) =>
              bans' = Restrict(bans, {r \in Rows(bans) :
                                         \/ r.expiration_time = 0
                                         \/ r.expiration_time >= c})]_vars

---------------------------------------------------------------------------
\* C8. create_ban with an explicit id that a stored ban already has fails
\* with the store's duplicate-identifier error, returns no ban, and leaves
\* the table exactly as it was.
DuplicateIdentifier == Raise("IntegrityError", "UNIQUE constraint failed: bans.uuid")

C8_DuplicateIdentifier ==
    [][(/\ ret'.op = "create_ban"
        /\ Truthy(ret'.args.ban_uuid)
        /\ \E r \in Rows(bans) : r.uuid = ret'.args.ban_uuid
        /\ CreateBan(ret'.args.remote_origin, ret'.args.ban_uuid, ret'.args.kwargs))
       => (ret'.result = DuplicateIdentifier /\ bans' = bans)]_vars

\* C8's case: create_ban was given the id of a stored ban whose scope had
\* been updated, it raised, and the one stored ban still has that scope
C8_Witness ==
    /\ ret.op = "create_ban"
    /\ Truthy(ret.args.ban_uuid)
    /\ ret.result = DuplicateIdentifier
    /\ \E r \in Rows(bans) :
          /\ r.uuid = ret.args.ban_uuid
          /\ r.scope = "a"
          /\ CopiesIn(r, bans) = 1

---------------------------------------------------------------------------
\* C9. Id uniqueness under concurrency: under every interleaving of the
\* statements of concurrent create_ban calls no two stored bans have the
\* same id, and of two calls in flight with the same id at most one returns
\* a ban, the other ending in the conflict error.
C9_UniqueIds ==
    /\ \A r \in Rows(bans) : CopiesIn(r, bans) = 1
    /\ \A r1, r2 \in Rows(bans) : r1.uuid = r2.uuid => r1 = r2
    /\ \A p, q \in Callers :
          (/\ p # q
           /\ pc[p] = "done" /\ pc[q] = "done"
           /\ local[p].kind = "ban" /\ local[q].kind = "ban"
           /\ local[p].ban.uuid = local[q].ban.uuid
           /\ out[p].kind = "ban")
          => out[q] = DuplicateIdentifier

\* C9's case: two callers built different bans under one id, both ran
\* their insert, one returned its ban and the other raised
C9_Witness ==
    /\ pc["c1"] = "done" /\ pc["c2"] = "done"
    /\ local["c1"].kind = "ban" /\ local["c2"].kind = "ban"
    /\ local["c1"].ban.uuid = local["c2"].ban.uuid
    /\ local["c1"].ban # local["c2"].ban
    /\ out["c2"] = ReturnBan(local["c2"].ban)
    /\ out["c1"] = DuplicateIdentifier

---------------------------------------------------------------------------
\* C10. Create/get round trip: for every combination of fields passed to
\* create_ban, get_ban of the returned ban's id returns a ban whose fields
\* equal those of the ban create_ban returned.
C10_CreateGetRoundTrip ==
    Created => get_ban(bans, ret.result.ban.uuid) = ReturnBan(ret.result.ban)

---------------------------------------------------------------------------
\* What the claims about update_ban and remove_ban speak of.

\* the value get_ban reports for a field that update_ban was passed
ReadBack(ban, field) ==
    CASE field \in {"creation_time", "expiration_time", "view_time"} ->
            timestamp(ban[field])
      [] OTHER -> ban[field]

\* the value a caller passed for a field, as an entity holds it
Passed(kwargs, field) ==
    CASE field = "remote_origin" -> ip_address(kwargs[field])
      [] OTHER -> kwargs[field]

\* the stored rows of the other bans
Others(table, ban_uuid) ==
    Restrict(table, {r \in Rows(table) : r.uuid # ban_uuid})

\* the ban is stored
Stored(table, ban_uuid) == \E r \in Rows(table) : r.uuid = ban_uuid

---------------------------------------------------------------------------
\* C11. Update read-back: when update_ban is called for a stored ban with
\* keyword arguments and does not raise, get_ban for that id afterwards
\* reports, for every field that was passed, the value that was passed.
C11_UpdateReadBack ==
    [][ret'.op = "update_ban" =>
        \A id \in Uuids, kw \in UpdateCalls :
            (UpdateBan(id, kw) /\ ret'.result = ReturnNone /\ Stored(bans, id))
            => LET got == get_ban(bans', id)
               IN  /\ got.kind = "ban"
                   /\ \A f \in DOMAIN kw : ReadBack(got.ban, f) = Passed(kw, f)]_vars

---------------------------------------------------------------------------
\* C12. Update frame: a call of update_ban leaves the number of stored rows
\* as it was (also when the id is not stored), leaves every row of another
\* id as it was, changes in the row of its id no column but those named by
\* its keyword arguments (never the uuid), and with no keyword arguments
\* leaves the table as it was.
C12_UpdateFrame ==
    [][ret'.op = "update_ban" =>
        \A id \in Uuids, kw \in UpdateCalls :
            UpdateBan(id, kw)
            => /\ BagCardinality(bans') = BagCardinality(bans)
               /\ Others(bans', id) = Others(bans, id)
               /\ \A r \in Rows(bans) :
                     r.uuid = id
                     => \E r2 \in Rows(bans') :
                           /\ r2.uuid = id
                           /\ \A c \in DOMAIN r \ DOMAIN kw : r2[c] = r[c]
               /\ (DOMAIN kw = {} => bans' = bans)]_vars

\* update_ban has written fields of one stored ban: that ban keeps a field
\* the call did not name, and the other stored ban has none of the values
C12_Witness ==
    /\ ret.op = "update_ban"
    /\ ret.result = ReturnNone
    /\ \E r1, r2 \in Rows(bans) :
          /\ r1.uuid # r2.uuid
          /\ r1.scope = "a" /\ r1.reason = "r1" /\ r1.note = "n0"
          /\ r2.scope = "" /\ r2.reason = "r0"

---------------------------------------------------------------------------
\* C13. remove_ban is idempotent: a call of remove_ban raises nothing, leaves
\* no ban of its id for get_ban to find, leaves every row of another id as it
\* was, and leaves the table as it was when no ban of its id was stored (so a
\* second call for the same id has no further effect).
C13_RemoveIdempotent ==
    [][ret'.op = "remove_ban" =>
        LET id == ret'.args.ban_uuid
        IN  /\ ret'.result = ReturnNone
            /\ get_ban(bans', id) = ReturnNone
            /\ Others(bans', id) = Others(bans, id)
            /\ (~Stored(bans, id) => bans' = bans)
            /\ DeleteRows(bans', id) = bans']_vars

\* remove_ban was called for an id that is no longer stored while the ban of
\* the other id, edited before, is still stored
C13_Witness ==
    /\ ret.op = "remove_ban"
    /\ ~Stored(bans, ret.args.ban_uuid)
    /\ \E r \in Rows(bans) : r.reason = "r1"

---------------------------------------------------------------------------
\* What the claims about search_bans speak of.

\* the bans search_bans can return for a filter, with the default sort and
\* order and no page size
Returned(filter) ==
    UNION {{r.bans[i] : i \in DOMAIN r.bans} :
            r \in {o \in search_bans(bans, filter, "creation_time", "desc", 0, 0) :
                    o.kind = "list"}}

\* search_bans raises nothing for the filter
NoError(filter) ==
    \A r \in search_bans(bans, filter, "creation_time", "desc", 0, 0) :
        r.kind = "list"

\* the list-valued criteria, and those that hold identifiers
ListKeys ==
    {"uuids", "remote_origins", "scopes", "user_uuids", "created_by_uuids",
     "reasons", "notes"}
IdentifierKeys == {"uuids", "user_uuids", "created_by_uuids"}

\* the entry of a list-valued criterion is valid: an identifier, an address
ValidEntry(k, entry) ==
    CASE k \in IdentifierKeys -> entry \in UuidValues
      [] k = "remote_origins" -> entry \in {"1.2.3.4", "::1", "0:0:0:0:0:0:0:1"}
      [] OTHER -> TRUE

\* the row matches a valid entry of a list-valued criterion
EntryMatches(k, row, entry) ==
    CASE k = "uuids" -> row.uuid = entry
      [] k = "remote_origins" -> SameOrigin(row, entry)
      [] k = "scopes" -> row.scope = entry
      [] k = "user_uuids" -> row.user_uuid = entry
      [] k = "created_by_uuids" -> row.created_by_uuid = entry
      [] k = "reasons" -> Like(row.reason, entry)
      [] k = "notes" -> Like(row.note, entry)

\* the row matches, for every list-valued criterion of the filter, one of
\* its valid entries
MatchesEvery(row, filter) ==
    \A k \in ListKeys \cap DOMAIN filter :
        \E i \in DOMAIN filter[k] :
            ValidEntry(k, filter[k][i]) /\ EntryMatches(k, row, filter[k][i])

\* the bans of the stored rows that do
Meant(filter) == {BanOfRow(row) : row \in {r \in Rows(bans) : MatchesEvery(r, filter)}}

\* filters of valid entries: two entries in one criterion, and two criteria
ComposedFilters ==
    {[uuids |-> <<"u1", "u2">>],
     [remote_origins |-> <<"1.2.3.4", "::1">>],
     [scopes |-> <<"", "a">>],
     [user_uuids |-> <<"x1", "x2">>],
     [created_by_uuids |-> <<DefaultUuid, "x1">>],
     [reasons |-> <<"r1", "r0">>],
     [notes |-> <<"", "n1">>],
     [uuids |-> <<"u1", "u2">>, remote_origins |-> <<"1.2.3.4">>],
     [user_uuids |-> <<"x1">>, reasons |-> <<"r%">>]}

\* filters with identifiers that are none
IdentifierFilters ==
    {[k \in {key} |-> l] :
        key \in IdentifierKeys,
        l \in {<<"bad-id">>, <<"bad-id", "worse-id">>, <<"bad-id", "x1">>,
               <<"x1", "bad-id">>, <<"bad-id", "u1">>, <<"u1", "bad-id">>}}

\* filters with origins that are no addresses
AddressFilters ==
    {[remote_origins |-> l] :
        l \in {<<"bogus">>, <<"bogus", "nonsense">>, <<"bogus", "1.2.3.4">>,
               <<"1.2.3.4", "bogus">>, <<"bogus", "0:0:0:0:0:0:0:1">>}}

---------------------------------------------------------------------------
\* C14. Filter composition: for a filter of list-valued criteria with valid
\* entries, search_bans returns exactly the bans that match, for every
\* criterion of the filter, at least one entry of its list.
C14_FilterComposition ==
    \A f \in ComposedFilters : NoError(f) /\ Returned(f) = Meant(f)

---------------------------------------------------------------------------
\* C15. Identifier-set drop semantics: for uuids, user_uuids and
\* created_by_uuids, search_bans raises nothing when entries are no
\* identifiers, and returns exactly the bans that match one of the valid
\* entries (none when no entry is valid).
\* (Of a value that is no identifier the column type decides what becomes;
\* the property asks that what it decides can make the call conform.)
C15_IdentifierDrop ==
    \A f \in IdentifierFilters :
        \E r \in search_bans(bans, f, "creation_time", "desc", 0, 0) :
            /\ r.kind = "list"
            /\ {r.bans[i] : i \in DOMAIN r.bans} = Meant(f)

---------------------------------------------------------------------------
\* C16. Address-set drop semantics: for remote_origins, search_bans raises
\* nothing when entries do not parse as addresses, and returns exactly the
\* bans whose origin is one of the entries that do (none when none does),
\* whatever the order of the entries.
C16_AddressDrop ==
    \A f \in AddressFilters : NoError(f) /\ Returned(f) = Meant(f)

---------------------------------------------------------------------------
\* What the claims about time criteria speak of.

\* the time criteria: the keys of a range and the column they compare
TimeCriteria ==
    {[after |-> "created_after", before |-> "created_before", column |-> "creation_time"],
     [after |-> "expires_after", before |-> "expires_before", column |-> "expiration_time"],
     [after |-> "viewed_after", before |-> "viewed_before", column |-> "view_time"]}

\* filters of one cutoff and of a range
Only(key, c) == [x \in {key} |-> PyInt(c)]
Range(k, a, b) == [x \in {k.after, k.before} |-> IF x = k.after THEN PyInt(a) ELSE PyInt(b)]

\* the bans of the stored rows whose column holds one of the values
BansWith(column, values) ==
    {BanOfRow(row) : row \in {r \in Rows(bans) : r[column] \in values}}

\* the values of the model's timestamps within bounds
AtMost(c) == {t \in Timestamps : t =< c}
Above(c) == {t \in Timestamps : t > c}

\* the timestamps that a 'before' criterion on the column can match: all
\* creation times; expiration and view times but 0, which means never
Set(column) == IF column = "creation_time" THEN Timestamps ELSE Timestamps \ {0}

---------------------------------------------------------------------------
---------------------------------------------------------------------------
---------------------------------------------------------------------------
\* What the claim about cutoffs that are no numbers speaks of.

\* cutoffs that are no numbers
NonNumeric == {PyStr("string"), PyStr("")}

\* the criteria passed along with one
OtherCriteria ==
    {<<>>, [remote_origins |-> <<"1.2.3.4">>],
     [uuids |-> <<"u1">>, created_after |-> PyInt(0)],
     [user_uuids |-> <<"bad-id">>, remote_origins |-> <<"bogus">>]}

---------------------------------------------------------------------------
\* C19. A cutoff that is no number, for any of the six time criteria, alone
\* or with other criteria, makes search_bans and count_bans raise ValueError
\* (the code's InvalidCutoff): neither returns a result.
C19_InvalidCutoff ==
    \A k \in CutoffKeys, v \in NonNumeric, other \in OtherCriteria :
        LET f == [x \in {k} |-> v] @@ other
        IN  \A r \in search_bans(bans, f, "creation_time", "desc", 0, 0)
                     \cup count_bans(bans, f) :
                r.kind = "raise" /\ r.exc = "ValueError"

\* search_bans has raised ValueError for a filter with a valid criterion that
\* a stored ban matches
C19_Witness ==
    /\ ret.op = "search_bans"
    /\ ret.result.kind = "raise"
    /\ ret.result.exc = "ValueError"
    /\ "remote_origins" \in DOMAIN ret.args.filter
    /\ \E r \in Rows(bans) : Where(r, [remote_origins |-> ret.args.filter.remote_origins])

---------------------------------------------------------------------------
\* What the claim about pages speaks of.

PageFilters == {<<>>, [remote_origins |-> <<"1.2.3.4">>]}
SortFields == {"creation_time", "uuid", "reason", "bogus"}
Orders == {"asc", "desc", "descending"}

\* the sequences that reading pages 0 to k - 1 of n bans can give
RECURSIVE Concatenated(_, _, _, _, _)
Concatenated(f, sort, order, n, k) ==
    IF k = 0 THEN {<<>>}
    ELSE {c \o p.bans :
            c \in Concatenated(f, sort, order, n, k - 1),
            p \in search_bans(bans, f, sort, order, k - 1, n)}

\* the first m of a sequence
Truncated(s, m) == SubSeq(s, 1, IF m < Len(s) THEN m ELSE Len(s))

\* the bans are in the order of creation time, then identifier
ByCreationThenUuid(s, order) ==
    \A i, j \in DOMAIN s :
        i < j => LET t1 == timestamp(s[i].creation_time)
                     t2 == timestamp(s[j].creation_time)
                     u1 == SortKey(s[i], "uuid")
                     u2 == SortKey(s[j], "uuid")
                 IN  IF order = "desc"
                     THEN t1 > t2 \/ (t1 = t2 /\ u1 > u2)
                     ELSE t1 < t2 \/ (t1 = t2 /\ u1 < u2)

---------------------------------------------------------------------------
\* C20. Deterministic pagination: for every filter, sort field and direction
\* search_bans without a page size has one possible result, ordered by the
\* sort field and then the identifier in the same direction; and for every
\* page size n >= 1 and every k >= 1 the pages 0 to k - 1 read one after the
\* other are that result truncated to k * n bans, so that no ban is on two
\* pages and none is skipped.
C20_Pagination ==
    \A f \in PageFilters, sort \in SortFields, order \in Orders :
        LET full == search_bans(bans, f, sort, order, 0, 0)
        IN  /\ Cardinality(full) = 1
            /\ \A u \in full :
                  /\ u.kind = "list"
                  /\ sort \in {"creation_time", "bogus"} => ByCreationThenUuid(u.bans, order)
                  /\ \A n \in 1..MaxPerPage, k \in 1..MaxPage :
                        \A c \in Concatenated(f, sort, order, n, k) :
                            c = Truncated(u.bans, k * n)

\* page 1 of one ban per page has returned a ban while two stored bans have
\* the same creation time, the sort field
C20_Witness ==
    /\ ret.op = "search_bans"
    /\ ret.args.page = 1 /\ ret.args.perpage = 1
    /\ ret.args.sort = "creation_time"
    /\ ret.result.kind = "list"
    /\ Len(ret.result.bans) = 1
    /\ \E r1, r2 \in Rows(bans) : r1 # r2 /\ r1.creation_time = r2.creation_time

---------------------------------------------------------------------------
\* What the claim about bans that never expire speaks of.

\* the stored bans that match a call of check_ban: active, of the global
\* scope or the scope asked for, of the origin or the user passed
MatchingCall(a) ==
    {row \in Rows(bans) : /\ Active(row, now)
                          /\ ScopeCondition(row, a.scope)
                          /\ MatchesIdentity(row, a)}

\* those of them that expire, later than the clock
FutureDated(a) == {row \in MatchingCall(a) : row.expiration_time # 0}

---------------------------------------------------------------------------
\* C22. Unbounded does not outrank long-dated: when a ban that expires after
\* the clock matches a call of check_ban, the call returns a ban that expires
\* after the clock, also when a ban that never expires (expiration_time 0)
\* matches too; a ban that never expires is returned only when no matching
\* ban expires after the clock.
C22_UnboundedDoesNotOutrank ==
    \A a \in CheckArgs :
        WellFormed(a) =>
            \A r \in CheckNow(a) :
                /\ FutureDated(a) # {}
                   => r.kind = "ban" /\ timestamp(r.ban.expiration_time) > now
                /\ (r.kind = "ban" /\ timestamp(r.ban.expiration_time) = 0)
                   => FutureDated(a) = {}

\* check_ban has returned a ban that expires after the clock while a ban
\* that never expires matches the same call
C22_Witness ==
    /\ Checked
    /\ ret.time = now
    /\ ret.result.kind = "ban"
    /\ timestamp(ret.result.ban.expiration_time) > now
    /\ \E m \in MatchingCall(ret.args) : m.expiration_time = 0
    /\ \E m \in FutureDated(ret.args) : BanOfRow(m) = ret.result.ban

---------------------------------------------------------------------------
\* What the claim about counts speaks of.

\* the filters counted and searched: none, lists of valid and of invalid
\* entries, cutoffs and ranges, cutoffs that are no numbers
CountedFilters ==
    {<<>>} \cup ComposedFilters \cup IdentifierFilters \cup AddressFilters
    \cup {Only(key, c) : key \in CutoffKeys, c \in {0, 1}}
    \cup {[created_after |-> PyInt(0), remote_origins |-> <<"::1">>],
          [expires_before |-> PyStr("2"), reasons |-> <<"r%">>],
          [viewed_before |-> PyStr("string")]}

\* the number count_bans gives for the empty filter on a table
CountOf(table) == (CHOOSE r \in count_bans(table, <<>>) : TRUE).count

---------------------------------------------------------------------------
\* C23. count/search agreement: for every filter, whenever count_bans and
\* search_bans (page 0, no page size) both return, the count is the number
\* of bans in the list; a call of either leaves the table as it was; and the
\* count for the empty filter starts at 0, grows by one with every
\* create_ban that returns a ban, shrinks by one with every remove_ban of a
\* stored ban and by the number of rows a prune_bans deletes, and is changed
\* by no other call.
C23_CountSearchAgreement ==
    /\ [](\A f \in CountedFilters :
            \A c \in count_bans(bans, f),
               s \in search_bans(bans, f, "creation_time", "desc", 0, 0) :
                (c.kind = "count" /\ s.kind = "list") => c.count = Len(s.bans))
    /\ [](ret.op = "none" => CountOf(bans) = 0)
    /\ [][/\ ret'.op \in {"search_bans", "count_bans"} => bans' = bans
          /\ CountOf(bans')
               = CountOf(bans)
                 + (CASE ret'.op = "create_ban" ->
                            IF ret'.result.kind = "ban" THEN 1 ELSE 0
                      [] ret'.op = "remove_ban" ->
                            IF Stored(bans, ret'.args.ban_uuid) THEN -1 ELSE 0
                      [] ret'.op = "prune_bans" ->
                            0 - Cardinality(Rows(bans) \ Rows(bans'))
                      [] OTHER -> 0)]_vars

\* count_bans has counted one of two stored bans for a filter that the
\* other does not match
C23_Witness ==
    /\ ret.op = "count_bans"
    /\ ret.args.filter = [remote_origins |-> <<"1.2.3.4">>]
    /\ ret.result.kind = "count"
    /\ ret.result.count = 1
    /\ BagCardinality(bans) = 2

---------------------------------------------------------------------------
\* What the claim about pseudonymize_user speaks of.

\* the stored rows of a user, with their multiplicities
RowsOfUser(table, user_uuid) ==
    Restrict(table, {r \in Rows(table) : r.user_uuid = user_uuid})

\* the step is a call of pseudonymize_user that returned an identifier
Pseudonymized == ret'.op = "pseudonymize_user" /\ ret'.result.kind = "id"

\* what the claim says of such a step, from old to new
Severed(old, new) ==
    /\ Truthy(ret'.args.replacement) => new = ret'.args.replacement
    /\ ~Truthy(ret'.args.replacement) => new \notin InUse(bans) \cup {old}
    /\ \A r \in Rows(bans) :
          r.user_uuid = old => [r EXCEPT !.user_uuid = new] \in Rows(bans')
    /\ old \notin InUse(bans')
    /\ BagCardinality(RowsOfUser(bans', new)) = BagCardinality(RowsOfUser(bans, old))
    /\ BagCardinality(bans') = BagCardinality(bans)
    /\ \A r \in Rows(bans') :
          \E q \in Rows(bans) : r = [q EXCEPT !.user_uuid = r.user_uuid]
    /\ \A r \in Rows(bans) :
          r.user_uuid # old => r \in Rows(bans') /\ bans'[r] >= bans[r]

---------------------------------------------------------------------------
\* C21 as stated. pseudonymize_user(user_id, replacement): every stored ban
\* of the user gets the identifier returned (the replacement, or a fresh
\* one); afterwards no ban has the old user_id, as many bans have the new
\* one as had the old one, and the number of bans, the other fields of every
\* ban and the bans of other users are as they were.
C21_Pseudonymize_AsStated ==
    [][Pseudonymized => Severed(ret'.args.user_uuid, ret'.result.id)]_vars

\* C21 as amended. The same, for a call whose replacement, when one is
\* supplied, is the user_id of no stored ban.
C21_Pseudonymize ==
    [][(Pseudonymized /\ ret'.args.replacement \notin InUse(bans))
       => Severed(ret'.args.user_uuid, ret'.result.id)]_vars

\* pseudonymize_user has given a fresh identifier to a ban that its old user
\* had created, while a ban of another user is stored
C21_Witness ==
    /\ ret.op = "pseudonymize_user"
    /\ ret.result.kind = "id"
    /\ ret.args.replacement = None
    /\ \E r1, r2 \in Rows(bans) :
          /\ r1.user_uuid = ret.result.id
          /\ r1.created_by_uuid = ret.args.user_uuid
          /\ r2.user_uuid \notin {ret.result.id, ret.args.user_uuid}

====
